---------------------------- MODULE Spec2Model ----------------------------
(***************************************************************************)
(* URL threat classifier (app.py): the lexical feature extractor, the      *)
(* threat-DNA scorer and the two request handlers, /predict and /bulk.     *)
(*                                                                         *)
(* A string is a sequence of one-character strings.  A Python float that   *)
(* is a quotient of two integers is kept as the exact fraction             *)
(* [num, den] with den > 0.  A class probability is an integer number of   *)
(* ProbUnit-ths, one decimal digit finer than the 4 decimals the handlers  *)
(* round to; a confidence is an integer number of tenths of a percent.     *)
(***************************************************************************)
EXTENDS Integers, Sequences, FiniteSets, TLC

VARIABLES
    model,      \* the classifier loaded at start-up (app.py:12)
    le,         \* the label encoder loaded at start-up (app.py:13)
    pc,         \* per request slot: where its handler stands
    kind,       \* per request slot: "predict" or "bulk"
    input,      \* per request slot: the request's JSON payload
    results,    \* per request slot: bulk's local list `results`
    idx,        \* per request slot: bulk's position in `urls`
    response,   \* per request slot: the response returned (status, body)
    calls,      \* per request slot: the calls the handler made, in order
    url,        \* function-level runs: the string under test
    features,   \* function-level runs: the feature record
    dna,        \* function-level runs: the 8 scores
    probs,      \* function-level runs: the classifier's probabilities
    prob_dict,  \* function-level runs: the rounded probabilities
    stage       \* function-level runs: which step has run

vars == << model, le, pc, kind, input, results, idx, response, calls,
           url, features, dna, probs, prob_dict, stage >>

reqVars == << model, le, pc, kind, input, results, idx, response, calls >>
funVars == << url, features, dna, probs, prob_dict, stage >>

None == "none"

-----------------------------------------------------------------------------
(* Bounds of the model                                                     *)

\* longest generated URL body (after an optional scheme prefix)
MaxLen == 3
\* longest batch enumerated entry by entry
MaxBatchLen == 2
\* request slots served concurrently
NReq == 2
\* largest number of classes of a classifier in the probability runs
MaxClasses == 3

-----------------------------------------------------------------------------
(* Characters and strings                                                  *)

Digits == {"0", "1", "2", "3", "4", "5", "6", "7", "8", "9"}

LowerLetters == {"a", "b", "c", "d", "e", "f", "g", "h", "i", "j", "k", "l", "m",
                 "n", "o", "p", "q", "r", "s", "t", "u", "v", "w", "x", "y", "z"}

UpperLetters == {"H", "T", "P"}

Letters == LowerLetters \cup UpperLetters

Whitespace == {" ", "\t", "\n"}

\* the characters str.isalnum accepts: those of isalpha and of isdigit
Alnum == Letters \cup Digits

\* str.isalpha on one character
isalpha(c) == c \in Letters

\* str.lower on one character and on a string
LowerChar(c) ==
    CASE c = "H" -> "h"
      [] c = "T" -> "t"
      [] c = "P" -> "p"
      [] OTHER -> c

lower(s) == [i \in 1..Len(s) |-> LowerChar(s[i])]

\* s.count(c) for a one-character c
count(s, c) == Cardinality({i \in 1..Len(s) : s[i] = c})

\* sum(c in C for c in s) and sum(c not in C for c in s)
CountIn(s, C) == Cardinality({i \in 1..Len(s) : s[i] \in C})
CountNotIn(s, C) == Cardinality({i \in 1..Len(s) : s[i] \notin C})

\* s.startswith(p)
startswith(s, p) == Len(s) >= Len(p) /\ SubSeq(s, 1, Len(p)) = p

\* p in s
contains(s, p) ==
    \E i \in 1..(Len(s) - Len(p) + 1) : SubSeq(s, i, i + Len(p) - 1) = p

\* s.find(c): the first index (1-based) of character c at or after `from`,
\* 0 when there is none
find(s, C, from) ==
    LET hits == {i \in from..Len(s) : s[i] \in C}
    IN  IF hits = {} THEN 0 ELSE CHOOSE i \in hits : \A j \in hits : i <= j

\* the last index of character c, 0 when there is none
rfind(s, c) ==
    LET hits == {i \in 1..Len(s) : s[i] = c}
    IN  IF hits = {} THEN 0 ELSE CHOOSE i \in hits : \A j \in hits : i >= j

\* s[from:] with a 1-based `from`
Tail0(s, from) == SubSeq(s, from, Len(s))

\* str.strip(): leading and trailing whitespace removed
strip(s) ==
    LET keep == {i \in 1..Len(s) : s[i] \notin Whitespace}
    IN  IF keep = {} THEN << >>
        ELSE LET lo == CHOOSE i \in keep : \A j \in keep : i <= j
                 hi == CHOOSE i \in keep : \A j \in keep : i >= j
             IN  SubSeq(s, lo, hi)

\* exact fractions standing for floats
Frac(n, d) == [num |-> n, den |-> d]
FracLeq(a, b) == a.num * b.den <= b.num * a.den
FracOne == Frac(1, 1)
FracZero == Frac(0, 1)
\* min(x, 1.0)
MinOne(x) == IF FracLeq(x, FracOne) THEN x ELSE FracOne
InUnit(x) == FracLeq(FracZero, x) /\ FracLeq(x, FracOne)

max(a, b) == IF a >= b THEN a ELSE b

-----------------------------------------------------------------------------
(* urllib.parse.urlparse, as far as extract_features reads it              *)

HttpPrefix == <<"h", "t", "t", "p">>
HttpSlashes == <<"h", "t", "t", "p", ":", "/", "/">>
HttpsPrefix == <<"h", "t", "t", "p", "s">>

SchemeChars == Letters \cup Digits \cup {"+", "-", "."}

\* what urlparse is handed: the URL, prefixed when it has no http scheme
ParseInput(u) == IF startswith(u, HttpPrefix) THEN u ELSE HttpSlashes \o u

\* the text after "scheme:", or all of it when no scheme is recognised
AfterScheme(p) ==
    LET i == find(p, {":"}, 1)
    IN  IF i > 1 /\ isalpha(p[1]) /\ \A j \in 1..(i - 1) : p[j] \in SchemeChars
        THEN Tail0(p, i + 1)
        ELSE p

HasNetloc(r) == Len(r) >= 2 /\ r[1] = "/" /\ r[2] = "/"

\* the network location: from after "//" to the first of / ? #
NetlocEnd(r) ==
    LET d == find(r, {"/", "?", "#"}, 3)
    IN  IF d = 0 THEN Len(r) + 1 ELSE d

Netloc(r) == IF HasNetloc(r) THEN SubSeq(r, 3, NetlocEnd(r) - 1) ELSE << >>

AfterNetloc(r) == IF HasNetloc(r) THEN Tail0(r, NetlocEnd(r)) ELSE r

\* urlsplit raises ValueError("Invalid IPv6 URL") on an unmatched bracket
ParseRaises(u) ==
    LET n == Netloc(AfterScheme(ParseInput(u)))
    IN  (count(n, "[") > 0 /\ count(n, "]") = 0)
        \/ (count(n, "]") > 0 /\ count(n, "[") = 0)

\* parsed.path: what follows the netloc, up to the first # or ?
ParsedPath(u) ==
    LET r == AfterNetloc(AfterScheme(ParseInput(u)))
        e == find(r, {"?", "#"}, 1)
    IN  IF e = 0 THEN r ELSE SubSeq(r, 1, e - 1)

\* parsed.hostname: the netloc after the last @, up to the port, lower-cased
ParsedHostname(u) ==
    LET n == Netloc(AfterScheme(ParseInput(u)))
        a == rfind(n, "@")
        h == Tail0(n, a + 1)
        c == find(h, {":"}, 1)
    IN  lower(IF c = 0 THEN h ELSE SubSeq(h, 1, c - 1))

\* hostname and path as extract_features binds them, the except branch included
hostname_of(u) == IF ParseRaises(u) THEN << >> ELSE ParsedHostname(u)
path_of(u) == IF ParseRaises(u) THEN u ELSE ParsedPath(u)

-----------------------------------------------------------------------------
(* extract_features                                                        *)

At(s, k) == IF k \in 1..Len(s) THEN s[k] ELSE ""

DigitRun(s, i, l) == \A j \in i..(i + l - 1) : At(s, j) \in Digits

\* re.search(r'\d{1,3}\.\d{1,3}\.\d{1,3}\.\d{1,3}', s)
IPv4Shaped(s) ==
    \E i \in 1..Len(s) : \E l1 \in 1..3 :
        /\ DigitRun(s, i, l1)
        /\ At(s, i + l1) = "."
        /\ \E l2 \in 1..3 :
            /\ DigitRun(s, i + l1 + 1, l2)
            /\ At(s, i + l1 + 1 + l2) = "."
            /\ \E l3 \in 1..3 :
                /\ DigitRun(s, i + l1 + l2 + 2, l3)
                /\ At(s, i + l1 + l2 + 2 + l3) = "."
                /\ DigitRun(s, i + l1 + l2 + l3 + 3, 1)

SuspiciousWords == {
    <<"l", "o", "g", "i", "n">>,
    <<"s", "e", "c", "u", "r", "e">>,
    <<"a", "c", "c", "o", "u", "n", "t">>,
    <<"u", "p", "d", "a", "t", "e">>,
    <<"b", "a", "n", "k">>,
    <<"v", "e", "r", "i", "f", "y">>,
    <<"c", "o", "n", "f", "i", "r", "m">>,
    <<"p", "a", "y", "p", "a", "l">>,
    <<"s", "i", "g", "n", "i", "n">>,
    <<"e", "b", "a", "y">>,
    <<"a", "d", "m", "i", "n">>,
    <<"p", "a", "s", "s", "w", "o", "r", "d">> }

\* len(hostname.split('.')): one more label than there are dots
SplitLen(h) == count(h, ".") + 1

\* the count clamped at zero
num_subdomains_clamped(h) == IF h # << >> THEN max(SplitLen(h) - 2, 0) ELSE 0

\* len(hostname.split('.')) - 2 if hostname else 0
num_subdomains_of(h) == IF h # << >> THEN SplitLen(h) - 2 ELSE 0

\* the denominator without its guard against the empty string
RatioDenNoGuard(u) == Len(u)

\* the denominator of the three ratios
RatioDen(u) == max(Len(u), 1)

\* sum(not c.isalnum() for c in url) / max(len(url), 1)
special_ratio_of(u) == Frac(CountNotIn(u, Alnum), RatioDen(u))

extract_features(u) ==
    LET hostname == hostname_of(u)
        path == path_of(u)
    IN  [ url_length          |-> Len(u),
          hostname_length     |-> Len(hostname),
          path_length         |-> Len(path),
          num_dots            |-> count(u, "."),
          num_hyphens         |-> count(u, "-"),
          num_underscores     |-> count(u, "_"),
          num_slashes         |-> count(u, "/"),
          num_at              |-> count(u, "@"),
          num_question        |-> count(u, "?"),
          num_equals          |-> count(u, "="),
          num_ampersand       |-> count(u, "&"),
          num_percent         |-> count(u, "%"),
          num_digits          |-> CountIn(u, Digits),
          has_ip              |-> IF IPv4Shaped(u) THEN 1 ELSE 0,
          has_https           |-> IF startswith(u, HttpsPrefix) THEN 1 ELSE 0,
          has_www             |-> IF contains(u, <<"w", "w", "w", ".">>) THEN 1 ELSE 0,
          has_at_sign         |-> IF count(u, "@") > 0 THEN 1 ELSE 0,
          has_double_slash    |-> IF contains(Tail0(u, 8), <<"/", "/">>) THEN 1 ELSE 0,
          has_hex_encoding    |-> IF count(u, "%") > 0 THEN 1 ELSE 0,
          num_subdomains      |-> num_subdomains_of(hostname),
          has_suspicious_word |-> IF \E w \in SuspiciousWords : contains(lower(u), w)
                                  THEN 1 ELSE 0,
          digit_ratio         |-> Frac(CountIn(u, Digits), RatioDen(u)),
          letter_ratio        |-> Frac(CountIn(u, Letters), RatioDen(u)),
          special_ratio       |-> special_ratio_of(u) ]

-----------------------------------------------------------------------------
(* get_dna_scores                                                          *)

\* x * k for a fraction x (a float times an int)
FracTimes(x, k) == Frac(x.num * k, x.den)

\* the score without the lower clamp
SubdomainDepthNoFloor(f) == MinOne(Frac(f.num_subdomains, 4))

\* min(max(features['num_subdomains'], 0) / 4, 1.0)
SubdomainDepth(f) == MinOne(Frac(max(f.num_subdomains, 0), 4))

\* min(features['special_ratio'] * 3, 1.0)
SpecialChars(f) == MinOne(FracTimes(f.special_ratio, 3))

get_dna_scores(u, f) ==
    [ LengthRisk     |-> MinOne(Frac(Len(u), 150)),
      SpecialChars   |-> SpecialChars(f),
      SuspiciousKW   |-> Frac(f.has_suspicious_word, 1),
      IPAddress      |-> Frac(f.has_ip, 1),
      SubdomainDepth |-> SubdomainDepth(f),
      DigitDensity   |-> MinOne(FracTimes(f.digit_ratio, 4)),
      HyphenAbuse    |-> MinOne(Frac(f.num_hyphens, 6)),
      EncodingTricks |-> Frac(f.has_hex_encoding, 1) ]

DNAKeys == {"LengthRisk", "SpecialChars", "SuspiciousKW", "IPAddress",
            "SubdomainDepth", "DigitDensity", "HyphenAbuse", "EncodingTricks"}

-----------------------------------------------------------------------------
(* Rounding, the classifier and the label encoder                          *)

\* round(p, 4) keeps this many steps per unit
RoundScale == 10000
\* the resolution probabilities are modelled at: one more decimal digit
ProbUnit == RoundScale * 10

\* round() of x / m to an integer, ties to the even neighbour.  This is
\* Python's round on the double nearest to the decimal x / m whenever that
\* decimal is no tie, or is a tie a double holds exactly (see DecidedAsDecimal)
RoundHalfEven(x, m) ==
    LET q == x \div m
        d == x % m
    IN  IF 2 * d < m THEN q
        ELSE IF 2 * d > m THEN q + 1
        ELSE IF q % 2 = 0 THEN q ELSE q + 1

\* truncation to 4 decimals in place of rounding
Round4Floor(p) == p \div (ProbUnit \div RoundScale)

\* round(float(p), 4), in units of 1 / RoundScale
Round4(p) == RoundHalfEven(p, ProbUnit \div RoundScale)

SeqMax(ps) == CHOOSE m \in {ps[i] : i \in 1..Len(ps)} : \A i \in 1..Len(ps) : ps[i] <= m

\* round(float(max(probs)) * 100, 1), in tenths of a percent
Confidence(ps) == RoundHalfEven(SeqMax(ps) * 100, ProbUnit \div 10)

LabelNames == <<"benign", "defacement", "malware", "phishing", "spam", "other">>

\* le.classes_ of an encoder fitted on n labels
LoadLabelEncoder(n) == SubSeq(LabelNames, 1, n)

\* the distributions a classifier of n classes answers with
DistTable(n) ==
    CASE n = 2 -> << <<50000, 50000>>, <<99996, 4>>, <<3125, 96875>>, <<12346, 87654>> >>
      [] n = 3 -> << <<33333, 33333, 33334>>, <<0, 100000, 0>>, <<12346, 12346, 75308>>,
                     <<3125, 3125, 93750>> >>
      [] OTHER -> << [i \in 1..n |-> IF i = 1 THEN ProbUnit ELSE 0] >>

\* the classifiers the artifact may hold: a number of classes and weights
Models == {[classes |-> n, seed |-> k] : n \in {2, 3}, k \in {0, 1}}

\* what the classifier reads of a feature record
FeatureHash(f) ==
    f.url_length + f.hostname_length + f.num_dots + f.num_subdomains
    + f.has_ip + f.digit_ratio.num + 2

\* model.predict(df)[0]: a class index, 0-based as the encoder numbers them
model_predict(m, f) == (FeatureHash(f) + 2 * m.seed) % m.classes

\* model.predict_proba(df)[0]: one probability per class, summing to 1
model_predict_proba(m, f) ==
    LET t == DistTable(m.classes)
    IN  t[((FeatureHash(f) + m.seed) % Len(t)) + 1]

\* le.inverse_transform([i])[0]
inverse_transform(enc, i) == enc[i + 1]

min2(a, b) == IF a <= b THEN a ELSE b

\* {cls: round(float(p), 4) for cls, p in zip(le.classes_, probs)}
RoundedProbs(enc, ps) ==
    LET n == min2(Len(enc), Len(ps))
    IN  [c \in {enc[i] : i \in 1..n} |->
            Round4(ps[CHOOSE i \in 1..n : enc[i] = c /\ \A j \in 1..n : enc[j] = c => j <= i])]

-----------------------------------------------------------------------------
(* Inputs                                                                  *)

Alphabet == {"a", "1", ".", "-", "/", " ", "%", "@", "?", "["}

Prefixes == { << >>, HttpPrefix, HttpSlashes, HttpsPrefix \o <<":", "/", "/">> }

Bodies == UNION {[1..n -> Alphabet] : n \in 0..MaxLen}

SampleURLs == {
    <<"h", "t", "t", "p", "s", ":", "/", "/", "w", "w", "w", ".", "p", "a", "y", "p", "a", "l", "-", "l", "o", "g", "i", "n", ".", "c", "o", "m", "/", "s", "e", "c", "u", "r", "e", "?", "x", "=", "1">>,
    <<"1", "9", "2", ".", "1", "6", "8", ".", "1", ".", "1", "/", "a", "d", "m", "i", "n">>,
    <<"H", "T", "T", "P", ":", "/", "/", "P", "a", "y", "P", "a", "l", ".", "c", "o", "m">>,
    <<"h", "t", "t", "p", ":", "/", "/", "a", ".", "b", ".", "c", ".", "d", ".", "e", ".", "f", ".", "g", "/", "x", "/", "/", "y">>,
    <<"a", "_", "b", "&", "c", "=", "d", "%", "2", "0", "@", "e", ".", "f", ":", "8", "0", "/", "p">>,
    <<"9", "9", "9", ".", "9", "9", "9", ".", "9", "9", "9", ".", "9", "9", "9">>,
    <<"e", "x", "a", "m", "p", "l", "e", ".", "c", "o", "m", "/", "/", "p", "a", "t", "h">>,
    <<"h", "t", "t", "p", ":", "/", "/", "a", ".", "b", ":", "8", "0", "/", "x", "#", "f">> }

\* a URL long enough for Length Risk to clamp
LongLen == 151
LongURL == [i \in 1..LongLen |-> "a"]

URLs == SampleURLs \cup {LongURL} \cup {p \o b : p \in Prefixes, b \in Bodies}

\* every field of a FeatureRecord
NoFeatures == [f \in {} |-> 0]

-----------------------------------------------------------------------------
(* Function-level runs: extract_features, then get_dna_scores              *)

\* a slot that holds no request
NoResponse == [status |-> 0]
IdleSlots(v) == [r \in 1..NReq |-> v]

ReqUnused ==
    /\ model = None /\ le = << >>
    /\ pc = IdleSlots("idle") /\ kind = IdleSlots(None) /\ input = IdleSlots(None)
    /\ results = IdleSlots(<< >>) /\ idx = IdleSlots(0)
    /\ response = IdleSlots(NoResponse) /\ calls = IdleSlots(<< >>)

InitFeat ==
    /\ url \in URLs
    /\ stage = "start"
    /\ features = NoFeatures
    /\ dna = None
    /\ probs = << >> /\ prob_dict = << >>
    /\ ReqUnused

\* features = extract_features(url)
Extract ==
    /\ stage = "start"
    /\ features' = extract_features(url)
    /\ stage' = "extracted"
    /\ UNCHANGED << url, dna, probs, prob_dict >>
    /\ UNCHANGED reqVars

\* dna = get_dna_scores(url, features)
Score ==
    /\ stage = "extracted"
    /\ dna' = get_dna_scores(url, features)
    /\ stage' = "scored"
    /\ UNCHANGED << url, features, probs, prob_dict >>
    /\ UNCHANGED reqVars

NextFeat == Extract \/ Score

SpecFeat == InitFeat /\ [][NextFeat]_vars

-----------------------------------------------------------------------------
(* Function-level runs: get_dna_scores on records of any origin            *)

\* the size of an extreme field value
Extreme == 10000

ExtremeInts == {-Extreme, 0, 1, Extreme}

\* records a caller other than the handlers could hand to get_dna_scores
ArbitraryRecords ==
    {[extract_features(<< >>) EXCEPT
        !.special_ratio = Frac(a, 1), !.digit_ratio = Frac(b, 1),
        !.has_suspicious_word = c, !.has_ip = d, !.has_hex_encoding = e,
        !.num_subdomains = g, !.num_hyphens = h] :
      a \in ExtremeInts, b \in ExtremeInts, c \in ExtremeInts, d \in ExtremeInts,
      e \in ExtremeInts, g \in ExtremeInts, h \in ExtremeInts}

InitDNA ==
    /\ url \in {<<"a">>, LongURL}
    /\ features \in ArbitraryRecords
    /\ stage = "extracted"
    /\ dna = None
    /\ probs = << >> /\ prob_dict = << >>
    /\ ReqUnused

SpecDNA == InitDNA /\ [][Score]_vars

-----------------------------------------------------------------------------
(* Function-level runs: the rounding of a classifier's probabilities       *)

ProbGrid == {0, 1, 4, 6, 9, 12, 3125, 33333, 50000}

SumSeq(h) ==
    LET S[k \in 0..Len(h)] == IF k = 0 THEN 0 ELSE S[k - 1] + h[k]
    IN  S[Len(h)]

\* a weight round(p, 4) treats as its decimal: not half way between two
\* 4-decimal numbers, or half way and a multiple of 1/32, which a double holds
\* exactly.  Any other tie is broken by the double nearest to the decimal.
DecidedAsDecimal(p) == (2 * (p % (ProbUnit \div RoundScale)) # ProbUnit \div RoundScale)
                       \/ p % (ProbUnit \div 32) = 0

\* every distribution over n classes with all but the last weight on the grid
Distributions(n) ==
    {d \in {Append(h, ProbUnit - SumSeq(h)) :
                h \in {g \in [1..(n - 1) -> ProbGrid] : SumSeq(g) <= ProbUnit}} :
        \A i \in 1..n : DecidedAsDecimal(d[i])}

InitProb ==
    /\ \E n \in 1..MaxClasses : probs \in Distributions(n)
    /\ prob_dict = << >>
    /\ stage = "start"
    /\ url = << >> /\ features = NoFeatures /\ dna = None
    /\ ReqUnused

\* prob_dict = {cls: round(float(p), 4) for cls, p in zip(le.classes_, probabilities)}
RoundProbabilities ==
    /\ stage = "start"
    /\ prob_dict' = RoundedProbs(LoadLabelEncoder(Len(probs)), probs)
    /\ stage' = "rounded"
    /\ UNCHANGED << url, features, dna, probs >>
    /\ UNCHANGED reqVars

SpecProb == InitProb /\ [][RoundProbabilities]_vars

-----------------------------------------------------------------------------
(* The request handlers                                                    *)

\* len(urls) > 500
MaxBatch == 500

BadRequest(msg) == [status |-> 400, error |-> msg]
Ok(body) == [status |-> 200, body |-> body]

\* the url taken as it came, untrimmed
predict_url_nostrip(data) == IF data.has_url THEN data.url ELSE << >>

\* data.get('url', '').strip()
predict_url(data) == strip(IF data.has_url THEN data.url ELSE << >>)

\* predict, from extract_features(url) to the JSON body: the calls made, in
\* order, and what is returned
predict_run(m, enc, u) ==
    LET f == extract_features(u)
        prediction == model_predict(m, f)
        probabilities == model_predict_proba(m, f)
        predicted_class == inverse_transform(enc, prediction)
    IN  [ calls |-> << [fn |-> "extract_features", url |-> u],
                       [fn |-> "predict", features |-> f],
                       [fn |-> "predict_proba", features |-> f],
                       [fn |-> "get_dna_scores", url |-> u, features |-> f] >>,
          body  |-> [ url           |-> u,
                      prediction    |-> predicted_class,
                      probabilities |-> RoundedProbs(enc, probabilities),
                      dna           |-> get_dna_scores(u, f),
                      confidence    |-> Confidence(probabilities) ] ]

\* data.get('urls', [])
bulk_urls(data) == IF data.has_urls THEN data.urls ELSE << >>

\* the size test with the limit off by one
TooLargeOffByOne(urls) == Len(urls) > MaxBatch + 1

\* len(urls) > 500
TooLarge(urls) == Len(urls) > MaxBatch

\* the entry taken as it came, untrimmed
bulk_url_nostrip(raw) == raw

\* url = str(url).strip()
bulk_url(raw) == strip(raw)

\* an iteration that reports the confidence as a whole percentage
bulk_entry_percent(m, enc, u) ==
    LET f == extract_features(u)
        ps == model_predict_proba(m, f)
    IN  [ calls |-> << [fn |-> "extract_features", url |-> u],
                       [fn |-> "predict", features |-> f],
                       [fn |-> "predict_proba", features |-> f] >>,
          entry |-> [ url           |-> u,
                      prediction    |-> inverse_transform(enc, model_predict(m, f)),
                      confidence    |-> 10 * RoundHalfEven(SeqMax(ps) * 100, ProbUnit),
                      probabilities |-> RoundedProbs(enc, ps) ] ]

\* one iteration of bulk's loop on a non-blank url: the calls made and the
\* entry appended to results
bulk_entry(m, enc, u) ==
    LET f == extract_features(u)
        prediction == model_predict(m, f)
        ps == model_predict_proba(m, f)
        pred_class == inverse_transform(enc, prediction)
        confidence == Confidence(ps)
    IN  [ calls |-> << [fn |-> "extract_features", url |-> u],
                       [fn |-> "predict", features |-> f],
                       [fn |-> "predict_proba", features |-> f] >>,
          entry |-> [ url           |-> u,
                      prediction    |-> pred_class,
                      confidence    |-> confidence,
                      probabilities |-> RoundedProbs(enc, ps) ] ]

\* a tally keyed by the labels that were predicted only
summary_seen_only(enc, rs) ==
    [c \in {rs[k].prediction : k \in 1..Len(rs)} |->
        Cardinality({k \in 1..Len(rs) : rs[k].prediction = c})]

\* {c: sum(1 for r in results if r['prediction'] == c) for c in le.classes_}
summary_of(enc, rs) ==
    [c \in {enc[i] : i \in 1..Len(enc)} |->
        Cardinality({k \in 1..Len(rs) : rs[k].prediction = c})]

Finish(r, resp, made) ==
    /\ response' = [response EXCEPT ![r] = resp]
    /\ calls' = [calls EXCEPT ![r] = made]
    /\ pc' = [pc EXCEPT ![r] = "done"]

\* POST /predict, whole: the slot r takes a request and answers it
predict_step(r, Payloads) ==
    /\ pc[r] = "idle"
    /\ \E data \in Payloads :
        LET u == predict_url(data)
        IN  /\ kind' = [kind EXCEPT ![r] = "predict"]
            /\ input' = [input EXCEPT ![r] = data]
            /\ IF u = << >>
               THEN Finish(r, BadRequest("No URL provided"), << >>)
               ELSE LET run == predict_run(model, le, u)
                    IN  Finish(r, Ok(run.body), run.calls)
    /\ UNCHANGED << results, idx >>
    /\ UNCHANGED funVars

\* a handler that also refits the shared classifier on what it served
predict_refit(r, Payloads) ==
    /\ predict_step(r, Payloads)
    /\ model' = [model EXCEPT !.seed = (@ + 1) % 2]
    /\ le' = le

predict(r, Payloads) == predict_step(r, Payloads) /\ UNCHANGED << model, le >>

\* POST /bulk up to the loop: the payload is read and validated
bulk_begin(r, Payloads) ==
    /\ pc[r] = "idle"
    /\ \E data \in Payloads :
        LET urls == bulk_urls(data)
        IN  /\ kind' = [kind EXCEPT ![r] = "bulk"]
            /\ input' = [input EXCEPT ![r] = data]
            /\ IF urls = << >>
               THEN Finish(r, BadRequest("No URLs provided"), << >>)
                    /\ UNCHANGED << results, idx >>
               ELSE IF TooLarge(urls)
               THEN Finish(r, BadRequest("Max 500 URLs per batch"), << >>)
                    /\ UNCHANGED << results, idx >>
               ELSE /\ results' = [results EXCEPT ![r] = << >>]
                    /\ idx' = [idx EXCEPT ![r] = 1]
                    /\ calls' = [calls EXCEPT ![r] = << >>]
                    /\ pc' = [pc EXCEPT ![r] = "loop"]
                    /\ UNCHANGED response
    /\ UNCHANGED << model, le >>
    /\ UNCHANGED funVars

\* one iteration of `for url in urls`
bulk_iter(r) ==
    /\ pc[r] = "loop"
    /\ idx[r] <= Len(bulk_urls(input[r]))
    /\ LET u == bulk_url(bulk_urls(input[r])[idx[r]])
       IN  IF u = << >>
           THEN UNCHANGED << results, calls >>
           ELSE LET it == bulk_entry(model, le, u)
                IN  /\ results' = [results EXCEPT ![r] = Append(@, it.entry)]
                    /\ calls' = [calls EXCEPT ![r] = @ \o it.calls]
    /\ idx' = [idx EXCEPT ![r] = @ + 1]
    /\ UNCHANGED << model, le, pc, kind, input, response >>
    /\ UNCHANGED funVars

\* the loop is over: the summary is tallied and the response returned
bulk_end(r) ==
    /\ pc[r] = "loop"
    /\ idx[r] > Len(bulk_urls(input[r]))
    /\ response' = [response EXCEPT ![r] =
            Ok([ results |-> results[r],
                 summary |-> summary_of(le, results[r]),
                 total   |-> Len(results[r]) ])]
    /\ pc' = [pc EXCEPT ![r] = "done"]
    /\ UNCHANGED << model, le, kind, input, results, idx, calls >>
    /\ UNCHANGED funVars

\* the response has been sent; the slot serves the next request
Collect(r) ==
    /\ pc[r] = "done"
    /\ pc' = [pc EXCEPT ![r] = "idle"]
    /\ kind' = [kind EXCEPT ![r] = None]
    /\ input' = [input EXCEPT ![r] = None]
    /\ results' = [results EXCEPT ![r] = << >>]
    /\ idx' = [idx EXCEPT ![r] = 0]
    /\ response' = [response EXCEPT ![r] = NoResponse]
    /\ calls' = [calls EXCEPT ![r] = << >>]
    /\ UNCHANGED << model, le >>
    /\ UNCHANGED funVars

-----------------------------------------------------------------------------
(* Requests                                                                *)

Blank2 == <<" ", " ">>
PaddedAB == <<" ", "a", ".", "b", " ">>
DottedQuad == <<"1", ".", "1", ".", "1", ".", "1">>
OneLabel == <<"a">>
TabPadded == <<"\t", "c", "-", "d", ".", "e", "/", "f", "\n">>
PaypalURL == <<"h", "t", "t", "p", "s", ":", "/", "/", "w", "w", "w", ".", "p", "a", "y", "p", "a", "l", "-", "l", "o", "g", "i", "n", ".", "c", "o", "m", "/", "s", "e", "c", "u", "r", "e", "?", "x", "=", "1">>
AdminURL == <<"1", "9", "2", ".", "1", "6", "8", ".", "1", ".", "1", "/", "a", "d", "m", "i", "n">>
ACom == <<"h", "t", "t", "p", ":", "/", "/", "a", ".", "c", "o", "m">>

NoUrl == [has_url |-> FALSE, url |-> << >>]
NoUrls == [has_urls |-> FALSE, urls |-> << >>]

PredictPayloads ==
    {NoUrl} \cup {[has_url |-> TRUE, url |-> s] :
        s \in {<< >>, Blank2, <<"\t">>, PaddedAB, DottedQuad, OneLabel, TabPadded,
               PaypalURL, AdminURL, ACom, LongURL}}

BatchEntries == {<< >>, Blank2, PaddedAB, DottedQuad}

\* a batch of n entries, blank ones among them
CycleBatch(n) ==
    LET pat == <<PaddedAB, Blank2, DottedQuad, OneLabel, TabPadded>>
    IN  [i \in 1..n |-> pat[(i % Len(pat)) + 1]]

Batches ==
    UNION {[1..n -> BatchEntries] : n \in 0..MaxBatchLen}
    \cup {<< << >>, Blank2, ACom >>, <<PaypalURL, TabPadded, AdminURL>>}
    \cup {CycleBatch(MaxBatch), CycleBatch(MaxBatch + 1)}

BulkPayloads == {NoUrls} \cup {[has_urls |-> TRUE, urls |-> b] : b \in Batches}

InitReq ==
    /\ model \in Models
    /\ le = LoadLabelEncoder(model.classes)
    /\ pc = IdleSlots("idle") /\ kind = IdleSlots(None) /\ input = IdleSlots(None)
    /\ results = IdleSlots(<< >>) /\ idx = IdleSlots(0)
    /\ response = IdleSlots(NoResponse) /\ calls = IdleSlots(<< >>)
    /\ url = << >> /\ features = NoFeatures /\ dna = None
    /\ probs = << >> /\ prob_dict = << >> /\ stage = None

\* one worker: every request is served before the next is read
Next ==
    \/ predict(1, PredictPayloads)
    \/ bulk_begin(1, BulkPayloads)
    \/ bulk_iter(1)
    \/ bulk_end(1)
    \/ Collect(1)

Spec == InitReq /\ [][Next]_vars

\* the payloads of the concurrent runs
ConcPredictPayloads ==
    {[has_url |-> TRUE, url |-> s] : s \in {Blank2, PaddedAB, DottedQuad}}

ConcBulkPayloads ==
    {[has_urls |-> TRUE, urls |-> b] :
        b \in {<<PaddedAB, Blank2, DottedQuad>>, <<DottedQuad>>}}

\* NReq threads, their handlers interleaved at every loop iteration
NextConc ==
    \E r \in 1..NReq :
        \/ predict(r, ConcPredictPayloads)
        \/ bulk_begin(r, ConcBulkPayloads)
        \/ bulk_iter(r)
        \/ bulk_end(r)
        \/ Collect(r)

SpecConc == InitReq /\ [][NextConc]_vars

-----------------------------------------------------------------------------
(* Properties                                                              *)

IsBlank(e) == \A i \in 1..Len(e) : e[i] \in Whitespace

\* t is e without its leading and trailing whitespace, and is not empty
IsTrimOf(t, e) ==
    /\ t # << >>
    /\ t[1] \notin Whitespace /\ t[Len(t)] \notin Whitespace
    /\ \E i \in 0..(Len(e) - Len(t)) :
        /\ SubSeq(e, i + 1, i + Len(t)) = t
        /\ \A j \in 1..Len(e) : (j <= i \/ j > i + Len(t)) => e[j] \in Whitespace

\* the positions of the non-blank entries of a batch, in order
NonBlankIdx(urls) ==
    SelectSeq([i \in 1..Len(urls) |-> i], LAMBDA i : ~IsBlank(urls[i]))

BulkDone(r) == kind[r] = "bulk" /\ pc[r] = "done"
BulkAccepted(r) == BulkDone(r) /\ response[r].status = 200
PredictDone(r) == kind[r] = "predict" /\ pc[r] = "done"

\* C1: a batch of more than 500 entries, blank or not, is answered with the
\* 400 error "Max 500 URLs per batch" before any processing: the loop is never
\* entered, so no entry is trimmed, no features are extracted and the
\* classifier is never called for that request.
C1_BatchTooLarge ==
    \A r \in 1..NReq :
        (kind[r] = "bulk" /\ Len(bulk_urls(input[r])) > MaxBatch) =>
            /\ pc[r] = "done"
            /\ idx[r] = 0
            /\ results[r] = << >>
            /\ calls[r] = << >>
            /\ response[r] = BadRequest("Max 500 URLs per batch")

C1_Witness ==
    \E r \in 1..NReq :
        /\ BulkDone(r)
        /\ Len(bulk_urls(input[r])) = MaxBatch + 1
        /\ \E i \in 1..(MaxBatch + 1) : ~IsBlank(bulk_urls(input[r])[i])
        /\ response[r].status = 400

\* C2: a batch of 1 to 500 entries is accepted, and its results hold exactly
\* one entry per input entry that is not blank, in input order, each with the
\* trimmed URL; blank entries give neither a result nor an error, and total
\* is the number of non-blank entries.
C2_ResultsPerNonBlank ==
    \A r \in 1..NReq :
        BulkDone(r) =>
            LET urls == bulk_urls(input[r])
                nb == NonBlankIdx(urls)
            IN  (Len(urls) >= 1 /\ Len(urls) <= MaxBatch) =>
                    /\ response[r].status = 200
                    /\ Len(response[r].body.results) = Len(nb)
                    /\ response[r].body.total = Len(nb)
                    /\ \A k \in 1..Len(nb) :
                        IsTrimOf(response[r].body.results[k].url, urls[nb[k]])

C2_Witness ==
    \E r \in 1..NReq :
        /\ BulkAccepted(r)
        /\ Len(bulk_urls(input[r])) = MaxBatch
        /\ response[r].body.total > 1
        /\ response[r].body.total < MaxBatch
        /\ response[r].body.results[1].url # bulk_urls(input[r])[1]

\* the sum of a tally over the labels enc[1..n]
TallySum(t, enc) ==
    LET S[k \in 0..Len(enc)] == IF k = 0 THEN 0 ELSE S[k - 1] + t[enc[k]]
    IN  S[Len(enc)]

\* C3: the summary of an accepted batch has one key per label of the fixed
\* label set, labels nobody was predicted as included with count 0; each count
\* is the number of results with that prediction, and the counts sum to total.
C3_SummaryTally ==
    \A r \in 1..NReq :
        BulkAccepted(r) =>
            LET b == response[r].body
            IN  /\ DOMAIN b.summary = {le[i] : i \in 1..Len(le)}
                /\ \A c \in DOMAIN b.summary :
                    b.summary[c] =
                        Cardinality({k \in 1..Len(b.results) : b.results[k].prediction = c})
                /\ TallySum(b.summary, le) = b.total

C3_Witness ==
    \E r \in 1..NReq :
        /\ BulkAccepted(r)
        /\ response[r].body.total > 1
        /\ \E c \in DOMAIN response[r].body.summary : response[r].body.summary[c] = 0
        /\ \E c \in DOMAIN response[r].body.summary : response[r].body.summary[c] > 0

RatioFields(f) == {f.digit_ratio, f.letter_ratio, f.special_ratio}

\* C4: for every string, the empty one and those urlparse rejects included,
\* extract_features returns a record with url_length = len(s) and each of
\* digit_ratio, letter_ratio, special_ratio a defined number in [0,1]; for the
\* empty string the three ratios are 0.
C4_FeaturesTotal ==
    stage # "start" =>
        /\ features.url_length = Len(url)
        /\ \A x \in RatioFields(features) : x.den > 0 /\ InUnit(x)
        /\ url = << >> => \A x \in RatioFields(features) : x.num = 0

C4_Witness ==
    /\ stage = "extracted"
    /\ ParseRaises(url)
    /\ Len(url) > 0
    /\ features.hostname_length = 0
    /\ features.path_length = Len(url)
    /\ features.special_ratio.num > 0

AllInUnit(d) == \A k \in DNAKeys : InUnit(d[k])

\* a record of counts that are not negative, ratios that are not negative and
\* flags that are 0 or 1; num_subdomains is any integer
WellFormed(f) ==
    /\ f.special_ratio.num >= 0 /\ f.digit_ratio.num >= 0
    /\ f.num_hyphens >= 0
    /\ f.has_suspicious_word \in {0, 1}
    /\ f.has_ip \in {0, 1}
    /\ f.has_hex_encoding \in {0, 1}

SumError(pd, enc) ==
    LET total == TallySum(pd, enc) * (ProbUnit \div RoundScale)
    IN  IF total >= ProbUnit THEN total - ProbUnit ELSE ProbUnit - total

\* C6 as stated: the probabilities of a response, each rounded to 4 decimals,
\* sum to 1 within 1e-6, for any number of classes and any distribution.
C6_SumWithinMillionth ==
    stage = "rounded" =>
        SumError(prob_dict, LoadLabelEncoder(Len(probs))) * 1000000 <= ProbUnit

\* C6, amended: the rounded probabilities of a response over n classes sum to 1
\* within n * 0.00005, half a unit of the last kept decimal per class.
C6_SumWithinHalfUnitPerClass ==
    stage = "rounded" =>
        /\ DOMAIN prob_dict = {LabelNames[i] : i \in 1..Len(probs)}
        /\ 2 * SumError(prob_dict, LoadLabelEncoder(Len(probs)))
              <= Len(probs) * (ProbUnit \div RoundScale)

C6_Witness ==
    /\ stage = "rounded"
    /\ Len(probs) = 3
    /\ SumSeq(probs) = ProbUnit
    /\ \A i \in 1..3 : probs[i] > 0
    /\ SumError(prob_dict, LoadLabelEncoder(3)) = 10

\* two answered requests with the same payload carry the same response
SameInputSameResponse ==
    \A r1 \in 1..NReq : \A r2 \in 1..NReq :
        (pc[r1] = "done" /\ pc[r2] = "done" /\ kind[r1] = kind[r2]
            /\ input[r1] = input[r2]) => response[r1] = response[r2]

\* C7: requests share no mutable state: no step of any handler changes the
\* classifier or the label mapping, and under every interleaving two requests
\* with the same input get the same response, whatever ran before or meanwhile.
C7_NoSharedMutableState ==
    /\ [](SameInputSameResponse)
    /\ [][model' = model /\ le' = le]_vars

C7_Witness ==
    \E r1 \in 1..NReq : \E r2 \in 1..NReq :
        /\ r1 # r2
        /\ BulkAccepted(r1) /\ pc[r2] = "loop"
        /\ input[r1] = input[r2]
        /\ idx[r2] = 2
        /\ response[r1].body.total = 2

\* the JSON body of a single prediction for the raw url u
SingleBody(u) == predict_run(model, le, predict_url([has_url |-> TRUE, url |-> u])).body

\* C8: each non-blank URL of a batch is processed as the single-URL path
\* processes it: its result entry has the url, prediction, confidence and
\* probabilities of the response to a single request for that URL, and differs
\* only in having no dna.
C8_BatchMatchesSingle ==
    \A r \in 1..NReq :
        BulkAccepted(r) =>
            LET urls == bulk_urls(input[r])
                nb == NonBlankIdx(urls)
                rs == response[r].body.results
            IN  \A k \in 1..Len(rs) :
                    k <= Len(nb) =>
                        LET one == SingleBody(urls[nb[k]])
                        IN  /\ DOMAIN rs[k] = DOMAIN one \ {"dna"}
                            /\ \A fld \in DOMAIN rs[k] : rs[k][fld] = one[fld]

C8_Witness ==
    \E r \in 1..NReq :
        /\ BulkAccepted(r)
        /\ Len(response[r].body.results) = 3
        /\ bulk_urls(input[r])[2] = TabPadded
        /\ response[r].body.results[2].url # TabPadded
        /\ response[r].body.results[1].prediction # response[r].body.results[2].prediction

MissingOrBlank(data) == ~data.has_url \/ IsBlank(data.url)

\* C9: a single request whose url is missing or blank, and a batch request
\* whose urls is empty, is answered 400 with no feature extraction and no
\* classifier call; any other single request extracts features once, from the
\* trimmed url, and hands that one record to predict, to predict_proba and to
\* get_dna_scores.
C9_InvalidInputAndSingleRun ==
    \A r \in 1..NReq :
        /\ PredictDone(r) =>
            IF MissingOrBlank(input[r])
            THEN /\ response[r] = BadRequest("No URL provided")
                 /\ calls[r] = << >>
            ELSE /\ response[r].status = 200
                 /\ Len(calls[r]) = 4
                 /\ calls[r][1].fn = "extract_features"
                 /\ IsTrimOf(calls[r][1].url, input[r].url)
                 /\ calls[r][2] = [fn |-> "predict",
                                   features |-> extract_features(calls[r][1].url)]
                 /\ calls[r][3] = [fn |-> "predict_proba",
                                   features |-> calls[r][2].features]
                 /\ calls[r][4] = [fn |-> "get_dna_scores", url |-> calls[r][1].url,
                                   features |-> calls[r][2].features]
                 /\ response[r].body.url = calls[r][1].url
        /\ (kind[r] = "bulk" /\ bulk_urls(input[r]) = << >>) =>
            /\ pc[r] = "done"
            /\ response[r] = BadRequest("No URLs provided")
            /\ calls[r] = << >> /\ idx[r] = 0

C9_Witness ==
    \E r \in 1..NReq :
        /\ PredictDone(r)
        /\ input[r].has_url /\ input[r].url = TabPadded
        /\ response[r].status = 200
        /\ Len(calls[r]) = 4
        /\ calls[r][1].url # input[r].url

\* the labels of a hostname: the pieces between its dots
RECURSIVE HostLabels(_)
HostLabels(h) ==
    LET d == find(h, {"."}, 1)
    IN  IF d = 0 THEN <<h>>
        ELSE <<SubSeq(h, 1, d - 1)>> \o HostLabels(Tail0(h, d + 1))

FracEq(a, b) == a.num * b.den = b.num * a.den

NumSubdomainsAsStated ==
    stage # "start" =>
        LET h == hostname_of(url)
            n == features.num_subdomains
        IN  /\ n = (IF h = << >> THEN 0 ELSE Len(HostLabels(h)) - 2)
            /\ stage = "scored" =>
                /\ n < 0 => dna.SubdomainDepth.num = 0
                /\ FracEq(dna.SubdomainDepth,
                          IF n <= 0 THEN FracZero
                          ELSE IF n >= 4 THEN FracOne ELSE Frac(n, 4))

\* C10: num_subdomains is the number of dot-separated hostname labels minus 2,
\* not clamped (negative for a one-label hostname) and 0 for an empty hostname;
\* get_dna_scores changes no field of the record, so the classifier sees the
\* unclamped value, while Subdomain Depth is min(max(num_subdomains, 0) / 4, 1),
\* 0 whenever num_subdomains is negative.
C10_UnclampedSubdomains ==
    /\ [](NumSubdomainsAsStated)
    /\ [][stage = "extracted" => features' = features]_vars

C10_Witness ==
    /\ stage = "scored"
    /\ hostname_of(url) = <<"a">>
    /\ features.num_subdomains = -1
    /\ dna.SubdomainDepth.num = 0

=============================================================================
